---- MODULE Spec2Model ----
(***************************************************************************)
(* Model of ChromatekSwitch (src/chromatek_switch.py): one WS2812B pixel   *)
(* driven through rpi_ws281x.PixelStrip and one active-low push button on  *)
(* an RPi.GPIO input line with edge callbacks.                             *)
(*                                                                         *)
(* The two libraries are not part of the repository.  They are modelled    *)
(* at their interface: PixelStrip keeps a pixel buffer and a brightness    *)
(* that show() commits; RPi.GPIO keeps the pin set-up, the edge            *)
(* subscription and the notifications it has raised but whose callback    *)
(* has not run yet.  The bouncetime passed to add_event_detect is a hint:  *)
(* an edge inside the bounce time of the last notification may be dropped  *)
(* or delivered.                                                           *)
(***************************************************************************)
EXTENDS Integers, Sequences, FiniteSets, TLC

VARIABLES
    pixel,                \* PixelStrip buffer, pixel 0 (packed colour)
    shown,                \* pixel 0 as last committed by show()
    brightness,           \* PixelStrip brightness as set
    shownBrightness,      \* brightness as last committed by show()
    stripHeld,            \* the PixelStrip handle is held (begin() done)
    gpioSetup,            \* BUTTON_PIN is set up as an input (mode BCM)
    eventDetect,          \* RPi.GPIO holds an edge subscription on BUTTON_PIN
    activations,          \* successful GPIO.add_event_detect calls so far
    gpioCleanups,         \* GPIO.cleanup() calls so far
    press_callbacks,      \* self._press_callbacks
    release_callbacks,    \* self._release_callbacks
    button_event_added,   \* self._button_event_added
    level,                \* raw level of BUTTON_PIN
    pending,              \* notifications raised, callback not yet run
    now,                  \* time in ms
    lastNotify,           \* time of the last notification raised, -1 if none
    dispatches,           \* one entry per run of _button_event_handler
    invoked,              \* the callbacks the last run of the handler called
    ret,                  \* the last facade call and how it ended
    life,                 \* where the application is with the facade
    exitCalls,            \* cleanup() calls made by __exit__
    running,              \* the list the callback thread is walking, or "idle"
    pos,                  \* index of the next callback of that walk
    stale                 \* history: since the last read of the pin by the
                          \* handler, an edge was not notified or the level
                          \* changed under a notification not yet handled

vars == <<pixel, shown, brightness, shownBrightness, stripHeld,
          gpioSetup, eventDetect, activations, gpioCleanups,
          press_callbacks, release_callbacks, button_event_added,
          level, pending, now, lastNotify, dispatches, invoked, ret,
          life, exitCalls, running, pos, stale>>

ledVars == <<pixel, shown, brightness, shownBrightness, stripHeld>>
gpioVars == <<gpioSetup, eventDetect, activations, gpioCleanups>>
regVars == <<press_callbacks, release_callbacks, button_event_added>>
lineVars == <<level, pending, now, lastNotify>>
scopeVars == <<life, exitCalls>>
runVars == <<running, pos>>

----------------------------------------------------------------------------
(* Bounds of the model *)

MaxListeners == 2      \* registrations made in one run
MaxSamples == 2        \* notifications raised in one run
MaxTime == 250         \* the clock stops here, in ms
MaxCleanups == 2       \* cleanup() calls in one run
TickMs == 125          \* granularity of the clock, in ms

(* Program constants *)

BounceTime == 200      \* bouncetime=200 of add_event_detect
LED_BRIGHTNESS == 255  \* default brightness

Callbacks == {"a", "b"}

\* (red, green, blue) arguments the callers pass
ColorInputs == {<<0, 0, 0>>, <<255, 255, 255>>, <<255, 165, 0>>, <<256, 0, 0>>}
BrightnessInputs == {0, 25, 255, 256}

InRange(arg) == \A i \in 1..Len(arg) : arg[i] \in 0..255

----------------------------------------------------------------------------
(* rpi_ws281x.Color: (white << 24) | (red << 16) | (green << 8) | blue *)

RECURSIVE BitOr(_, _)
BitOr(a, b) ==
    IF a = 0 THEN b
    ELSE IF b = 0 THEN a
    ELSE (IF (a % 2 = 1) \/ (b % 2 = 1) THEN 1 ELSE 0)
         + 2 * BitOr(a \div 2, b \div 2)

\* the channels packed in the order green, red, blue
Color_GRB(red, green, blue) ==
    BitOr(BitOr(green * 65536, red * 256), blue)

Color(red, green, blue) ==
    BitOr(BitOr(red * 65536, green * 256), blue)

Black == Color(0, 0, 0)

\* the (red, green, blue) of a packed colour, as the strip reads it back
Unpack(c) == <<(c \div 65536) % 256, (c \div 256) % 256, c % 256>>

----------------------------------------------------------------------------
(* __init__: the strip is created with the brightness given and begun, the *)
(* pin is set up as a pulled-up input, the callback storage is empty.      *)

Init ==
    /\ pixel = Black
    /\ shown = Black
    /\ brightness = LED_BRIGHTNESS
    /\ shownBrightness = LED_BRIGHTNESS
    /\ stripHeld = TRUE
    /\ gpioSetup = TRUE
    /\ eventDetect = FALSE
    /\ activations = 0
    /\ gpioCleanups = 0
    /\ press_callbacks = <<>>
    /\ release_callbacks = <<>>
    /\ button_event_added = FALSE
    /\ level = "HIGH"
    /\ pending = 0
    /\ now = 0
    /\ lastNotify = -1
    /\ dispatches = <<>>
    /\ invoked = <<>>
    /\ ret = [op |-> "__init__", out |-> "ok", arg |-> <<>>]
    /\ life = [at |-> "live", how |-> "none", err |-> "none"]
    /\ exitCalls = 0
    /\ running = "idle"
    /\ pos = 0
    /\ stale = FALSE

----------------------------------------------------------------------------
(* LED output *)

\* set_color: setPixelColor(0, Color(...)) then show(); show() raises when
\* the render fails (showOk = FALSE) and then nothing is committed.
set_colorBody(op, red, green, blue, showOk) ==
    /\ pixel' = Color(red, green, blue)
    /\ shown' = IF showOk THEN pixel' ELSE shown
    /\ shownBrightness' = IF showOk THEN brightness ELSE shownBrightness
    /\ ret' = [op |-> op, out |-> IF showOk THEN "ok" ELSE "RuntimeError",
               arg |-> <<red, green, blue>>]
    /\ UNCHANGED <<brightness, stripHeld>>

set_color ==
    \E c \in ColorInputs, showOk \in BOOLEAN :
        /\ set_colorBody("set_color", c[1], c[2], c[3], showOk)
        /\ UNCHANGED <<gpioVars, regVars, lineVars, dispatches, invoked,
                       scopeVars, runVars, stale>>

\* turn_on(red=255, green=255, blue=255); ColorInputs holds the default
turn_on ==
    \E c \in ColorInputs, showOk \in BOOLEAN :
        /\ set_colorBody("turn_on", c[1], c[2], c[3], showOk)
        /\ UNCHANGED <<gpioVars, regVars, lineVars, dispatches, invoked,
                       scopeVars, runVars, stale>>

turn_off ==
    \E showOk \in BOOLEAN :
        /\ set_colorBody("turn_off", 0, 0, 0, showOk)
        /\ UNCHANGED <<gpioVars, regVars, lineVars, dispatches, invoked,
                       scopeVars, runVars, stale>>

\* set_brightness: setBrightness(brightness) then show().  The brightness
\* of the strip is one byte: handed a value outside 0..255 the library
\* either refuses it (accepted = FALSE, OverflowError, nothing changed) or
\* keeps its low byte.
set_brightness ==
    \E b \in BrightnessInputs, showOk \in BOOLEAN, accepted \in BOOLEAN :
        /\ IF b \notin 0..255 /\ ~accepted
           THEN /\ ret' = [op |-> "set_brightness", out |-> "OverflowError",
                           arg |-> <<b>>]
                /\ UNCHANGED <<brightness, shownBrightness, shown>>
           ELSE /\ brightness' = b % 256
                /\ shownBrightness' = IF showOk THEN b % 256 ELSE shownBrightness
                /\ shown' = IF showOk THEN pixel ELSE shown
                /\ ret' = [op |-> "set_brightness",
                           out |-> IF showOk THEN "ok" ELSE "RuntimeError",
                           arg |-> <<b>>]
        /\ UNCHANGED <<pixel, stripHeld, gpioVars, regVars, lineVars,
                       dispatches, invoked, scopeVars, runVars, stale>>

----------------------------------------------------------------------------
(* Button input *)

\* the comparison inverted (active-high)
get_button_state_ActiveHigh == level = "HIGH"

\* GPIO.input(BUTTON_PIN) == GPIO.LOW; defined while the pin is set up
get_button_state == level = "LOW"

GetButtonState ==
    /\ ret' = [op |-> "get_button_state",
               out |-> IF ~gpioSetup THEN "RuntimeError"
                       ELSE IF get_button_state THEN "True" ELSE "False",
               arg |-> <<>>]
    /\ UNCHANGED <<ledVars, gpioVars, regVars, lineVars, dispatches, invoked,
                   scopeVars, runVars, stale>>

\* _setup_button_events, after the callback has been appended.  subscribeOk
\* is whether GPIO.add_event_detect succeeds; it raises RuntimeError when the
\* pin is not an input (after GPIO.cleanup()), when the channel already has
\* edge detection, or when the kernel refuses the subscription.
AddEventDetectOk(subscribeOk) == subscribeOk /\ gpioSetup /\ ~eventDetect

\* the flag never set after a successful subscription
_setup_button_events_NoFlag(op, subscribeOk) ==
    IF AddEventDetectOk(subscribeOk)
    THEN /\ eventDetect' = TRUE
         /\ activations' = activations + 1
         /\ ret' = [op |-> op, out |-> "ok", arg |-> <<>>]
         /\ UNCHANGED button_event_added
    ELSE /\ ret' = [op |-> op, out |-> "RuntimeError", arg |-> <<>>]
         /\ UNCHANGED <<eventDetect, activations, button_event_added>>

_setup_button_events(op, subscribeOk) ==
    IF ~button_event_added
    THEN IF AddEventDetectOk(subscribeOk)
         THEN /\ eventDetect' = TRUE
              /\ activations' = activations + 1
              /\ button_event_added' = TRUE
              /\ ret' = [op |-> op, out |-> "ok", arg |-> <<>>]
         ELSE /\ ret' = [op |-> op, out |-> "RuntimeError", arg |-> <<>>]
              /\ UNCHANGED <<eventDetect, activations, button_event_added>>
    ELSE /\ ret' = [op |-> op, out |-> "ok", arg |-> <<>>]
         /\ UNCHANGED <<eventDetect, activations, button_event_added>>

Registered == Len(press_callbacks) + Len(release_callbacks)

\* on_button_press(callback): append, then _setup_button_events()
on_button_pressBody(cb, subscribeOk) ==
    /\ press_callbacks' = Append(press_callbacks, cb)
    /\ _setup_button_events("on_button_press", subscribeOk)
    /\ UNCHANGED release_callbacks

\* on_button_release(callback): append, then _setup_button_events()
on_button_releaseBody(cb, subscribeOk) ==
    /\ release_callbacks' = Append(release_callbacks, cb)
    /\ _setup_button_events("on_button_release", subscribeOk)
    /\ UNCHANGED press_callbacks

on_button_press ==
    \E cb \in Callbacks, subscribeOk \in BOOLEAN :
        /\ Registered < MaxListeners
        /\ on_button_pressBody(cb, subscribeOk)
        /\ UNCHANGED <<gpioSetup, gpioCleanups,
                       ledVars, lineVars, dispatches, invoked,
                       scopeVars, runVars, stale>>

on_button_release ==
    \E cb \in Callbacks, subscribeOk \in BOOLEAN :
        /\ Registered < MaxListeners
        /\ on_button_releaseBody(cb, subscribeOk)
        /\ UNCHANGED <<gpioSetup, gpioCleanups,
                       ledVars, lineVars, dispatches, invoked,
                       scopeVars, runVars, stale>>

----------------------------------------------------------------------------
(* The button line and the edge notifications of RPi.GPIO *)

\* The contact opens or closes.  With an edge subscription (GPIO.BOTH) the
\* edge raises a notification; inside the bounce time of the last
\* notification the library may honour the bouncetime hint and drop it.
InBounce == lastNotify >= 0 /\ now - lastNotify < BounceTime

LevelChange ==
    /\ level' = IF level = "LOW" THEN "HIGH" ELSE "LOW"
    /\ \/ /\ eventDetect
          /\ Len(dispatches) + pending < MaxSamples
          /\ pending' = pending + 1
          /\ lastNotify' = now
       \/ /\ ~eventDetect \/ InBounce
          /\ UNCHANGED <<pending, lastNotify>>
    /\ stale' = (stale \/ pending' = pending \/ pending > 0)
    /\ UNCHANGED <<now, ledVars, gpioVars, regVars, dispatches, invoked, ret,
                   scopeVars, runVars>>

Tick ==
    /\ now < MaxTime
    /\ now' = now + TickMs
    /\ UNCHANGED <<level, pending, lastNotify, ledVars, gpioVars, regVars,
                   dispatches, invoked, ret, scopeVars, runVars, stale>>

\* the list walked from its end
Invoke_Reversed(list, callbacks) ==
    [i \in 1..Len(callbacks) |->
        [list |-> list, cb |-> callbacks[Len(callbacks) + 1 - i]]]

\* for callback in <list>: callback() -- the calls made, in order
Invoke(list, callbacks) ==
    [i \in 1..Len(callbacks) |-> [list |-> list, cb |-> callbacks[i]]]

\* _button_event_handler(channel): the branch one run of the handler takes
\* and the callbacks it calls
HandlerKind == IF get_button_state THEN "Pressed" ELSE "Released"

\* the release branch walking the press list
HandlerCalls_PressOnly == Invoke("press", press_callbacks)

HandlerCalls ==
    IF get_button_state
    THEN Invoke("press", press_callbacks)
    ELSE Invoke("release", release_callbacks)

\* RPi.GPIO runs the callback of one notification.  After GPIO.cleanup() the
\* read of the pin raises and the handler ends without a dispatch.
_button_event_handler ==
    /\ pending > 0
    /\ pending' = pending - 1
    /\ IF gpioSetup
       THEN /\ dispatches' = Append(dispatches,
                   [t |-> now, level |-> level, kind |-> HandlerKind])
            /\ invoked' = HandlerCalls
       ELSE UNCHANGED <<dispatches, invoked>>
    /\ stale' = IF gpioSetup THEN pending' > 0 ELSE stale
    /\ UNCHANGED <<level, now, lastNotify, ledVars, gpioVars, regVars, ret,
                   scopeVars, runVars>>

----------------------------------------------------------------------------
(* The handler step by step: the calls of the listeners are separate steps, *)
(* so that the client thread (registration, cleanup) and the line can act   *)
(* between two of them, and a listener can itself call the facade.          *)

\* Listeners that call the facade when invoked:
\*   "regPress"   is  lambda: switch.on_button_press(cb)
\*   "regRelease" is  lambda: switch.on_button_release(cb)
\* where cb is a further listener: "n", or the registering listener again.
Listeners == {"a", "regPress", "regRelease"}

RegisteredBy(listener) == {"n", listener}

\* the client thread registering any of the listeners
ClientOnPress ==
    \E cb \in Listeners, subscribeOk \in BOOLEAN :
        /\ Registered < MaxListeners
        /\ on_button_pressBody(cb, subscribeOk)
        /\ UNCHANGED <<gpioSetup, gpioCleanups, ledVars, lineVars, dispatches,
                       invoked, scopeVars, runVars, stale>>

ClientOnRelease ==
    \E cb \in Listeners, subscribeOk \in BOOLEAN :
        /\ Registered < MaxListeners
        /\ on_button_releaseBody(cb, subscribeOk)
        /\ UNCHANGED <<gpioSetup, gpioCleanups, ledVars, lineVars, dispatches,
                       invoked, scopeVars, runVars, stale>>

\* the list the for statement of the running branch iterates over, as it is
\* now
LiveList == IF running = "press" THEN press_callbacks ELSE release_callbacks

\* a notification picked up while the callbacks of the one before still run
HandlerStart_Overlapping ==
    /\ pending > 0
    /\ pending' = pending - 1
    /\ IF gpioSetup
       THEN /\ dispatches' = Append(dispatches,
                   [t |-> now, level |-> level, kind |-> HandlerKind])
            /\ invoked' = <<>>
            /\ running' = IF get_button_state THEN "press" ELSE "release"
            /\ pos' = 1
       ELSE UNCHANGED <<dispatches, invoked, running, pos>>
    /\ stale' = IF gpioSetup THEN pending' > 0 ELSE stale
    /\ UNCHANGED <<level, now, lastNotify, ledVars, gpioVars, regVars, ret,
                   scopeVars>>

\* RPi.GPIO's callback thread takes the next notification when the callback
\* of the one before has returned; the handler reads the pin (which raises
\* after GPIO.cleanup()) and enters the for statement of one branch.
HandlerStart ==
    /\ pending > 0
    /\ running = "idle"
    /\ pending' = pending - 1
    /\ IF gpioSetup
       THEN /\ dispatches' = Append(dispatches,
                   [t |-> now, level |-> level, kind |-> HandlerKind])
            /\ invoked' = <<>>
            /\ running' = IF get_button_state THEN "press" ELSE "release"
            /\ pos' = 1
       ELSE UNCHANGED <<dispatches, invoked, running, pos>>
    /\ stale' = IF gpioSetup THEN pending' > 0 ELSE stale
    /\ UNCHANGED <<level, now, lastNotify, ledVars, gpioVars, regVars, ret,
                   scopeVars>>

\* one iteration of  for callback in self._button_..._callbacks: callback()
\* the list iterator indexes the list itself, so it sees what was appended
\* since the loop began
HandlerCall ==
    /\ running # "idle"
    /\ pos <= Len(LiveList)
    /\ invoked' = Append(invoked, [list |-> running, cb |-> LiveList[pos]])
    /\ pos' = pos + 1
    /\ CASE LiveList[pos] = "regPress" ->
                \E cb \in RegisteredBy("regPress"), subscribeOk \in BOOLEAN :
                    /\ Registered < MaxListeners
                    /\ on_button_pressBody(cb, subscribeOk)
         [] LiveList[pos] = "regRelease" ->
                \E cb \in RegisteredBy("regRelease"), subscribeOk \in BOOLEAN :
                    /\ Registered < MaxListeners
                    /\ on_button_releaseBody(cb, subscribeOk)
         [] OTHER ->
                UNCHANGED <<regVars, eventDetect, activations, ret>>
    /\ UNCHANGED <<running, pending, level, now, lastNotify, ledVars,
                   gpioSetup, gpioCleanups, dispatches, scopeVars, stale>>

\* the handler returning after its first call
HandlerEnd_Early ==
    /\ running # "idle"
    /\ pos > 1
    /\ running' = "idle"
    /\ pos' = 0
    /\ UNCHANGED <<pending, level, now, lastNotify, ledVars, gpioVars,
                   regVars, dispatches, invoked, ret, scopeVars, stale>>

\* the for statement is exhausted and the handler returns
HandlerEnd ==
    /\ running # "idle"
    /\ pos > Len(LiveList)
    /\ running' = "idle"
    /\ pos' = 0
    /\ UNCHANGED <<pending, level, now, lastNotify, ledVars, gpioVars,
                   regVars, dispatches, invoked, ret, scopeVars, stale>>

----------------------------------------------------------------------------
(* Lifecycle *)

\* cleanup: turn_off(), then GPIO.cleanup().  When show() raises inside
\* turn_off() the exception leaves cleanup() before GPIO.cleanup() is called.
\* GPIO.cleanup() removes the edge subscription and the pin set-up; the
\* callback of a notification already raised may still run.
\* The PixelStrip is not touched after turn_off().
cleanupBody_KeepsGpio(op, showOk) ==
    /\ set_colorBody(op, 0, 0, 0, showOk)
    /\ IF showOk
       THEN /\ gpioCleanups' = gpioCleanups + 1
            /\ UNCHANGED <<gpioSetup, eventDetect>>
       ELSE UNCHANGED <<gpioSetup, eventDetect, gpioCleanups>>
    /\ UNCHANGED <<pending, activations, regVars, level, now, lastNotify,
                   dispatches, invoked, runVars, stale>>

cleanupBody(op, showOk) ==
    /\ set_colorBody(op, 0, 0, 0, showOk)
    /\ IF showOk
       THEN /\ gpioSetup' = FALSE
            /\ eventDetect' = FALSE
            /\ gpioCleanups' = gpioCleanups + 1
       ELSE UNCHANGED <<gpioSetup, eventDetect, gpioCleanups>>
    /\ UNCHANGED <<pending, activations, regVars, level, now, lastNotify,
                   dispatches, invoked, runVars, stale>>

cleanup ==
    \E showOk \in BOOLEAN :
        /\ gpioCleanups < MaxCleanups
        /\ cleanupBody("cleanup", showOk)
        /\ UNCHANGED scopeVars

----------------------------------------------------------------------------
(* Construction and scoped use: with ChromatekSwitch() as switch: ...      *)

\* before ChromatekSwitch() is called: nothing is held
InitNew ==
    /\ pixel = Black
    /\ shown = Black
    /\ brightness = LED_BRIGHTNESS
    /\ shownBrightness = LED_BRIGHTNESS
    /\ stripHeld = FALSE
    /\ gpioSetup = FALSE
    /\ eventDetect = FALSE
    /\ activations = 0
    /\ gpioCleanups = 0
    /\ press_callbacks = <<>>
    /\ release_callbacks = <<>>
    /\ button_event_added = FALSE
    /\ level = "HIGH"
    /\ pending = 0
    /\ now = 0
    /\ lastNotify = -1
    /\ dispatches = <<>>
    /\ invoked = <<>>
    /\ ret = [op |-> "none", out |-> "ok", arg |-> <<>>]
    /\ life = [at |-> "new", how |-> "none", err |-> "none"]
    /\ exitCalls = 0
    /\ running = "idle"
    /\ pos = 0
    /\ stale = FALSE

\* __init__(brightness): PixelStrip(...) and begin(), then GPIO.setmode and
\* GPIO.setup.  Either library call may raise (stripOk, gpioOk); nothing in
\* __init__ catches it, so what was acquired before stays as it is.
__init__ ==
    \E b \in {x \in BrightnessInputs : x \in 0..255},
       stripOk \in BOOLEAN, gpioOk \in BOOLEAN :
        /\ life.at = "new"
        /\ brightness' = b
        /\ shownBrightness' = b
        /\ stripHeld' = stripOk
        /\ gpioSetup' = (stripOk /\ gpioOk)
        /\ life' = [life EXCEPT !.at = IF stripOk /\ gpioOk THEN "live"
                                       ELSE "failed"]
        /\ ret' = [op |-> "__init__",
                   out |-> IF stripOk /\ gpioOk THEN "ok" ELSE "RuntimeError",
                   arg |-> <<b>>]
        /\ UNCHANGED <<pixel, shown, eventDetect, activations, gpioCleanups,
                       regVars, lineVars, dispatches, invoked, exitCalls,
                       runVars, stale>>

\* __enter__ returns self
__enter__ ==
    /\ life.at = "live"
    /\ life' = [life EXCEPT !.at = "body"]
    /\ ret' = [op |-> "__enter__", out |-> "ok", arg |-> <<>>]
    /\ UNCHANGED <<ledVars, gpioVars, regVars, lineVars, dispatches, invoked,
                   exitCalls, runVars, stale>>

\* the calls the block makes on the facade
Body ==
    /\ life.at = "body"
    /\ \/ set_color
       \/ turn_on
       \/ turn_off
       \/ set_brightness
       \/ GetButtonState
       \/ cleanup

\* __exit__ swallowing the error of the block (returning True)
__exit___Swallow ==
    \E how \in {"normal", "return", "raise"}, showOk \in BOOLEAN :
        /\ life.at = "body"
        /\ cleanupBody("__exit__", showOk)
        /\ exitCalls' = exitCalls + 1
        /\ life' = [at |-> "left", how |-> how,
                    err |-> IF ~showOk THEN "RuntimeError" ELSE "none"]

\* with-statement leaving the block normally, by return, or by an error the
\* block raised: __exit__(exc_type, exc_val, exc_tb) is called once, calls
\* cleanup() and returns None, so the error of the block goes on to the
\* caller; when cleanup() raises, its error is what reaches the caller.
__exit__ ==
    \E how \in {"normal", "return", "raise"}, showOk \in BOOLEAN :
        /\ life.at = "body"
        /\ cleanupBody("__exit__", showOk)
        /\ exitCalls' = exitCalls + 1
        /\ life' = [at |-> "left", how |-> how,
                    err |-> IF ~showOk THEN "RuntimeError"
                            ELSE IF how = "raise" THEN "BodyError"
                            ELSE "none"]

NextScoped ==
    \/ __init__
    \/ __enter__
    \/ Body
    \/ __exit__

SpecScoped == InitNew /\ [][NextScoped]_vars

----------------------------------------------------------------------------

\* The button side: registration, the line, the handler and teardown
NextButton ==
    \/ on_button_press
    \/ on_button_release
    \/ LevelChange
    \/ Tick
    \/ _button_event_handler
    \/ cleanup

SpecButton == Init /\ [][NextButton]_vars

\* The LED side and the lifecycle: every facade call but registration
NextLife ==
    \/ set_color
    \/ turn_on
    \/ turn_off
    \/ set_brightness
    \/ GetButtonState
    \/ LevelChange
    \/ cleanup

SpecLife == Init /\ [][NextLife]_vars

\* The handler step by step, with the client thread and the line beside it
NextDispatch ==
    \/ ClientOnPress
    \/ ClientOnRelease
    \/ LevelChange
    \/ HandlerStart
    \/ HandlerCall
    \/ HandlerEnd
    \/ cleanup

SpecDispatch == Init /\ [][NextDispatch]_vars

----------------------------------------------------------------------------
(* The detector of the specification, run over the samples the handler saw. *)
(* It is the yardstick of the claims, not part of the program: recorded     *)
(* state Released at first; a sample is accepted when its state differs     *)
(* from the recorded one and the window since the last accepted one is over *)

Last(seq) == seq[Len(seq)]

IsPrefix(a, b) == Len(a) <= Len(b) /\ \A i \in 1..Len(a) : a[i] = b[i]

SampleKind(lvl) == IF lvl = "LOW" THEN "Pressed" ELSE "Released"

ListOf(kind) == IF kind = "Pressed" THEN "press" ELSE "release"

ListenersOf(kind) ==
    IF kind = "Pressed" THEN press_callbacks ELSE release_callbacks

Accepts(d, lvl, t) ==
    /\ SampleKind(lvl) # d.state
    /\ (d.last < 0 \/ t - d.last >= BounceTime)

RECURSIVE Detector(_)
Detector(n) ==
    IF n = 0 THEN [state |-> "Released", last |-> -1]
    ELSE LET d == Detector(n - 1)
             s == dispatches[n]
         IN  IF Accepts(d, s.level, s.t)
             THEN [state |-> SampleKind(s.level), last |-> s.t]
             ELSE d

Recorded == Detector(Len(dispatches))

\* this step is a run of the handler that read the pin
HandlerRan == Len(dispatches') = Len(dispatches) + 1

\* this step is one call of a listener by the running dispatch
ListenerCalled ==
    /\ running # "idle"
    /\ pos <= Len(LiveList)
    /\ invoked' = Append(invoked, [list |-> running, cb |-> LiveList[pos]])

\* calls the running for statement has still to make
Remaining == Len(LiveList) - pos + 1

RegOps == {"on_button_press", "on_button_release"}
LedOps == {"set_color", "turn_on", "turn_off", "set_brightness"}

----------------------------------------------------------------------------
(* C1: at most one dispatch (a run of the press or of the release listener *)
(* list) occurs within any one debounce window of 200 ms, whichever raw    *)
(* edges are delivered.                                                    *)
C1_OneDispatchPerWindow ==
    \A i, j \in 1..Len(dispatches) :
        i < j => dispatches[j].t - dispatches[i].t >= BounceTime

(* C2: a delivered sample whose logical state equals the recorded state    *)
(* (Released at first) is discarded: the handler calls no listener of      *)
(* either kind.                                                            *)
C2_SameStateDiscarded ==
    [][(HandlerRan /\ SampleKind(level) = Recorded.state)
          => invoked' = <<>>]_vars

(* C3: a delivered sample whose logical state differs from the recorded    *)
(* state and that arrives after the debounce window since the last         *)
(* accepted transition is dispatched, once, at that time, to the listeners *)
(* of the matching kind, each called once in order.                        *)
C3_AcceptedIsDispatched ==
    [][(pending' = pending - 1 /\ gpioSetup /\ Accepts(Recorded, level, now))
          => /\ HandlerRan
             /\ Last(dispatches') =
                    [t |-> now, level |-> level, kind |-> SampleKind(level)]
             /\ Len(invoked') = Len(ListenersOf(SampleKind(level)))
             /\ \A k \in 1..Len(invoked') :
                    invoked'[k] = [list |-> ListOf(SampleKind(level)),
                                   cb |-> ListenersOf(SampleKind(level))[k]]
       ]_vars

\* HIGH, then LOW at t, then HIGH a window later: Pressed then Released,
\* both accepted, the release listeners called
C3_Witness ==
    /\ Len(dispatches) = 2
    /\ dispatches[1].kind = "Pressed"
    /\ dispatches[2].kind = "Released"
    /\ dispatches[2].t - dispatches[1].t >= BounceTime
    /\ Recorded = [state |-> "Released", last |-> dispatches[2].t]
    /\ invoked # <<>>

(* C4: every run of the handler classifies active-low (Pressed exactly     *)
(* when the level read is LOW) and calls listeners of that kind only,      *)
(* never listeners of both kinds.                                          *)
C4_ActiveLowOneKind ==
    /\ \A i \in 1..Len(dispatches) :
           (dispatches[i].kind = "Pressed") <=> (dispatches[i].level = "LOW")
    /\ dispatches # <<>> =>
           \A k \in 1..Len(invoked) :
               invoked[k].list = ListOf(SampleKind(Last(dispatches).level))

C4_Witness ==
    /\ dispatches # <<>>
    /\ invoked # <<>>
    /\ press_callbacks # <<>>
    /\ release_callbacks # <<>>

(* C5: a dispatch calls every listener registered for its kind once per    *)
(* registration, in registration order (a callback registered twice is     *)
(* called twice); a registration appends, and no step removes or reorders  *)
(* a listener.                                                             *)
C5_RegistrationOrder ==
    [][/\ IsPrefix(press_callbacks, press_callbacks')
       /\ IsPrefix(release_callbacks, release_callbacks')
       /\ Len(press_callbacks') + Len(release_callbacks') <= Registered + 1
       /\ HandlerRan =>
             LET kind == Last(dispatches').kind
             IN  /\ Len(invoked') = Len(ListenersOf(kind))
                 /\ \A k \in 1..Len(invoked') :
                        invoked'[k].cb = ListenersOf(kind)[k]
      ]_vars

\* one callback registered twice for one kind and called twice by a dispatch
C5_Witness ==
    /\ dispatches # <<>>
    /\ Len(invoked) = 2
    /\ invoked[1].cb = invoked[2].cb
    /\ ListenersOf(Last(dispatches).kind) = <<invoked[1].cb, invoked[2].cb>>

C7_FailedRegistrationRetainsNothing ==
    [][(Registered' # Registered \/ ret' # ret)
         /\ ret'.op \in RegOps /\ ret'.out = "RuntimeError"
          => /\ press_callbacks' = press_callbacks
             /\ release_callbacks' = release_callbacks]_vars

(* C8: after cleanup every set_color, turn_on, turn_off, set_brightness or *)
(* get_button_state call fails; none ends normally.                        *)
C8_FailsAfterRelease ==
    (gpioCleanups >= 1 /\ ret.op \in LedOps \cup {"get_button_state"})
        => ret.out = "RuntimeError"

(* C9: when cleanup returns, the pixel last committed is (0,0,0) and       *)
(* neither the pixel-output handle nor the input subscription is held.     *)
C9_ReleasesBothResources ==
    (ret.op = "cleanup" /\ ret.out = "ok")
        => /\ shown = Black
           /\ ~stripHeld
           /\ ~gpioSetup
           /\ ~eventDetect

(* C10: in every state reached after the first cleanup the committed LED   *)
(* colour is (0,0,0), a second cleanup included.                           *)
C10_DarkAfterRelease ==
    gpioCleanups >= 1 => shown = Black

(* C19: when every raw level change raises one notification and the level  *)
(* does not change between a notification and the handler's read of it,    *)
(* successive dispatches alternate between press and release; the handler  *)
(* classifies by the level at read time, so a read that finds the level of *)
(* the previous read dispatches the same kind again.                       *)
C19_AlternateWhenFaithful ==
    [][HandlerRan =>
          /\ Last(dispatches').level = level
          /\ Last(dispatches').kind = SampleKind(level)
          /\ (dispatches # <<>> /\ ~stale) =>
                 Last(dispatches').kind # Last(dispatches).kind
          /\ (dispatches # <<>> /\ level = Last(dispatches).level) =>
                 Last(dispatches').kind = Last(dispatches).kind
      ]_vars

\* press then release, every edge notified and read before the next edge
C19_Witness ==
    /\ Len(dispatches) = 2
    /\ dispatches[1].kind # dispatches[2].kind
    /\ pending = 0
    /\ ~stale
    /\ level = dispatches[2].level

\* the level changed again before the read: the same kind twice in a row
C19_SameKindTwice ==
    /\ Len(dispatches) = 2
    /\ dispatches[1].kind = dispatches[2].kind

(* C18: in every reachable state _button_event_added is true exactly when  *)
(* an edge subscription on the button line is active.                      *)
C18_FlagIffSubscribed ==
    button_event_added <=> eventDetect

(* C18, amended: _button_event_added is true exactly when add_event_detect *)
(* has succeeded once: false before any registration, true after the first *)
(* successful one, still false after a failed one; until cleanup this is   *)
(* exactly when the subscription is active, and after cleanup has removed  *)
(* the subscription the flag stays true.                                   *)
C18_FlagRecordsActivation ==
    /\ button_event_added <=> activations = 1
    /\ eventDetect => button_event_added
    /\ gpioCleanups = 0 => (button_event_added <=> eventDetect)
    /\ (gpioCleanups >= 1 /\ activations = 1) =>
           (button_event_added /\ ~eventDetect)

\* registered and subscribed, then cleaned up: the flag outlives the
\* subscription
C18_Witness ==
    /\ gpioCleanups >= 1
    /\ Registered >= 1
    /\ button_event_added
    /\ ~eventDetect

(* C13: for every colour or brightness argument outside [0,255], set_color *)
(* and set_brightness fail before any hardware write, and the colour and   *)
(* brightness stored and committed before the call are unchanged.          *)
C13_OutOfRangeRejected ==
    [][(ret' # ret /\ ret'.op \in {"set_color", "set_brightness"}
          /\ ~InRange(ret'.arg))
          => /\ ret'.out # "ok"
             /\ UNCHANGED <<pixel, shown, brightness, shownBrightness>>]_vars

(* C14: for (r,g,b) in [0,255]^3 a set_color that returns has committed    *)
(* pixel 0, so the pixel last committed reads back (r,g,b), and the        *)
(* brightness is unchanged; a set_brightness(level) that returns has       *)
(* committed the level and leaves the committed colour unchanged.          *)
C14_CommitsExactly ==
    [][/\ (ret' # ret /\ ret'.op = "set_color" /\ ret'.out = "ok"
             /\ InRange(ret'.arg))
          => (Unpack(shown') = ret'.arg /\ brightness' = brightness)
       /\ (ret' # ret /\ ret'.op = "set_brightness" /\ ret'.out = "ok"
             /\ InRange(ret'.arg))
          => (shownBrightness' = ret'.arg[1] /\ shown' = shown)
      ]_vars

(* C14, amended: for (r,g,b) in [0,255]^3 a set_color that returns has     *)
(* committed pixel 0, so the pixel last committed reads back (r,g,b), and  *)
(* the brightness set is unchanged; a set_brightness(level) that returns   *)
(* has committed the level and leaves the stored colour unchanged: it      *)
(* commits the stored colour, which is the colour committed before unless  *)
(* the show() of an earlier set_color had failed.                          *)
C14_CommitsStored ==
    [][/\ (ret' # ret /\ ret'.op = "set_color" /\ ret'.out = "ok"
             /\ InRange(ret'.arg))
          => /\ Unpack(shown') = ret'.arg
             /\ shown' = pixel'
             /\ brightness' = brightness
       /\ (ret' # ret /\ ret'.op = "set_brightness" /\ ret'.out = "ok"
             /\ InRange(ret'.arg))
          => /\ shownBrightness' = ret'.arg[1]
             /\ brightness' = ret'.arg[1]
             /\ pixel' = pixel
             /\ shown' = pixel
             /\ (shown = pixel => shown' = shown)
      ]_vars

\* orange committed, then the brightness lowered: the colour is kept
C14_Witness ==
    /\ ret = [op |-> "set_brightness", out |-> "ok", arg |-> <<25>>]
    /\ Unpack(shown) = <<255, 165, 0>>
    /\ shownBrightness = 25
    /\ gpioCleanups = 0

(* C11: scoped use calls cleanup exactly once on every way of leaving the  *)
(* block: normal exit, early return, and an error raised in the block,     *)
(* which is not swallowed: an error reaches the caller after the cleanup   *)
(* call, the error of the block itself whenever cleanup returned.          *)
C11_OneReleaseOnEveryExit ==
    /\ life.at # "left" => exitCalls = 0
    /\ life.at = "left" =>
          /\ exitCalls = 1
          /\ ret.op = "__exit__"
          /\ life.how = "raise" => life.err # "none"
          /\ (life.how = "raise" /\ ret.out = "ok") => life.err = "BodyError"
          /\ (life.how # "raise" /\ ret.out = "ok") => life.err = "none"

\* the block raised: cleanup ran once and the error went on
C11_Witness ==
    /\ life = [at |-> "left", how |-> "raise", err |-> "BodyError"]
    /\ exitCalls = 1
    /\ gpioCleanups = 1
    /\ shown = Black

(* C12: after a failed construction no handle is held: a pixel output      *)
(* acquired before the input acquisition failed has been released.         *)
C12_NothingHeldAfterFailure ==
    life.at = "failed" => (~stripHeld /\ ~gpioSetup)

(* C15: when the LED-off write inside cleanup fails, the GPIO resources    *)
(* are released all the same before the error propagates, also when        *)
(* cleanup is run by the scoped exit.                                      *)
C15_ReleasesOnErrorPath ==
    (ret.op \in {"cleanup", "__exit__"} /\ ret.out = "RuntimeError")
        => (~gpioSetup /\ ~eventDetect)

(* C16: once cleanup has completed, no press or release listener is        *)
(* invoked again, whatever raw edges occur on the line afterwards.         *)
C16_NoListenerAfterCleanup ==
    [][gpioCleanups >= 1 => ~ListenerCalled]_vars

(* C16, as the code has it: once cleanup has completed, no dispatch starts *)
(* and no notification is raised, whatever raw edges occur; a handler that *)
(* is idle stays idle and calls nothing.  Only the dispatch that was in    *)
(* progress when cleanup completed goes on calling its listeners.          *)
C16_NoDispatchStartsAfterCleanup ==
    [][gpioCleanups >= 1 =>
          /\ dispatches' = dispatches
          /\ pending' <= pending
          /\ running = "idle" => (running' = "idle" /\ invoked' = invoked)
      ]_vars

\* a listener was registered and subscribed, cleanup has completed, the line
\* has changed, nothing is pending and no dispatch was ever made
C16_Witness ==
    /\ gpioCleanups >= 1
    /\ button_event_added
    /\ Registered >= 1
    /\ level = "LOW"
    /\ pending = 0
    /\ running = "idle"
    /\ dispatches = <<>>

(* C17: dispatches never interleave: a dispatch starts only when no other  *)
(* is running, every listener call belongs to the dispatch started last,   *)
(* and dispatches are logged in the order their notifications were taken.  *)
C17_NoInterleaving ==
    [][/\ HandlerRan =>
            /\ running = "idle"
            /\ dispatches' = Append(dispatches, Last(dispatches'))
            /\ dispatches # <<>> => Last(dispatches').t >= Last(dispatches).t
       /\ ListenerCalled =>
            /\ dispatches' = dispatches
            /\ running' = running
            /\ running = ListOf(Last(dispatches).kind)
            /\ \A i \in 1..Len(invoked') : invoked'[i].list = running
      ]_vars

\* a notification waits while the listeners of the dispatch before it run
C17_Witness ==
    /\ Len(dispatches) = 1
    /\ running # "idle"
    /\ pos <= Len(LiveList)
    /\ pending > 0

(* C20: a dispatch iterates over the live listener list: each call takes   *)
(* the listener at the current index of the list as it is now; a call that *)
(* registers a listener of the kind being dispatched leaves the number of  *)
(* calls still to make undiminished, any other call lowers it by one; the  *)
(* dispatch ends only when every listener of the list, those added during  *)
(* it included, has been called in order; listeners of the other kind are  *)
(* not called in it.                                                       *)
C20_IteratesLiveList ==
    [][/\ ListenerCalled =>
            LET after == IF running = "press" THEN press_callbacks'
                         ELSE release_callbacks'
                left == Len(after) - pos' + 1
            IN  /\ IsPrefix(LiveList, after)
                /\ Len(after) > Len(LiveList) => left >= Remaining
                /\ Len(after) = Len(LiveList) => left = Remaining - 1
       /\ (running # "idle" /\ running' = "idle") =>
            /\ invoked = Invoke(running, LiveList)
            /\ \A i \in 1..Len(invoked) :
                   invoked[i].list = ListOf(Last(dispatches).kind)
      ]_vars

\* a press dispatch has called "regPress" and then the listener "n" that
\* "regPress" registered during it
C20_Witness ==
    /\ running = "idle"
    /\ Len(dispatches) = 1
    /\ invoked = <<[list |-> "press", cb |-> "regPress"],
                   [list |-> "press", cb |-> "n"]>>

====
